---- MODULE Spec2Model ----
(***************************************************************************)
(* Identity resolution, conversation routing and replies of the message    *)
(* hub: the inbound webhook handler, InboundService.processMessage,        *)
(* OutboundService.sendReply, CustomerService, ThreadService,              *)
(* MessageService, the rule list of AutomationService, and the three       *)
(* DynamoDB repositories they write through.                               *)
(*                                                                         *)
(* Conventions.  A JavaScript `undefined` string is "", an `undefined`     *)
(* timestamp is 0, and `T | null` is the set {} or {t}.  uuidv4() draws    *)
(* the next value of the counter nextId, so generated ids never collide.   *)
(* createdAt / updatedAt, subject, notes, attachments and the metadata     *)
(* bags are carried through by the code without any decision depending on  *)
(* them and are left out of the records.  Every `await` on a repository    *)
(* or on Lark is one step of an operation; a call that does not overlap    *)
(* another one runs all its steps in a single action.                      *)
(***************************************************************************)
EXTENDS Integers, Sequences, FiniteSets, TLC

VARIABLES customers,   \* table lark-hub-customers: customer_id -> item
          threads,     \* table lark-hub-threads:   thread_id   -> item
          messages,    \* table lark-hub-messages:  message_id  -> item
          nextId,      \* number of uuidv4() values handed out so far
          proc,        \* the calls in flight: process -> frame of locals
          last,        \* the frame of the call that finished last
          rules,       \* AutomationService: `private rules`
          profileCache, \* ProfileCache: `private cache`, the Map's entries in iteration order
          pending,     \* getMessengerProfile calls awaiting the Graph API: call -> how many
          igCache,     \* InstagramProfileCache: `private cache`, userId -> entry
          clock,       \* Date.now()
          served,      \* what the cache operation that finished last returned
          used,        \* history: the psids in the order of their last set or cache hit, oldest first
          igSets       \* history: userId -> the arguments and time of its last set, until cleared

storeVars == <<customers, threads, messages, nextId, proc, last, rules>>

cacheVars == <<profileCache, pending, igCache, clock, served, used, igSets>>

vars == <<customers, threads, messages, nextId, proc, last, rules,
          profileCache, pending, igCache, clock, served, used, igSets>>

-----------------------------------------------------------------------------
(* Bounds of the model *)

MaxMessages == 2       \* inbound messages per behaviour of SpecInbound and SpecIdentity
MaxRouted == 3         \* inbound messages per behaviour of SpecRouting
MaxPrefix == 1         \* inbound messages stored before the concurrent calls of Spec start
NumProcs == 2          \* concurrent execution units of Spec, one call each
MaxStatusMessages == 1 \* inbound messages per behaviour of SpecMessageStatus
MaxSame == 3           \* inbound messages per behaviour of SpecSame
MaxConversation == 3   \* stored messages after which SpecOutbound takes no further call
MaxUnreliable == 3     \* ids handed out after which SpecUnreliable takes no further message or reply
MaxAutomation == 2     \* inbound messages per behaviour of SpecAutomation
MaxHints == 2          \* inbound messages per behaviour of SpecHints
MaxThreadMessages == 2 \* stored messages after which SpecThread takes no further operation
MaxClock == 2          \* milliseconds the clock advances in the cache specifications
MaxInflight == 2       \* getMessengerProfile calls awaiting the Graph API at once
maxSize == 3           \* ProfileCache: constructor argument maxSize
ttlMs == 1             \* ProfileCache: ttlMinutes * 60 * 1000 of the constructor
defaultTtl == 1        \* InstagramProfileCache: constructor argument defaultTtl
MaxBatch == 2          \* normalized messages per webhook event of SpecWebhook
MaxWebhook == 2        \* stored messages after which SpecWebhook takes no further event

Procs == 1..NumProcs

-----------------------------------------------------------------------------
(* Inputs *)

Identifiers ==
  { [type |-> "phone", value |-> "+81900000001"],
    [type |-> "email", value |-> "a@example.com"] }

InboundChannels == {"sms", "email"}

ThreadStatuses == {"open", "pending", "closed"}

ExternalIds == {"SM1", "SM2"}

Hello == <<"h", "i">>

Urgent == <<"U", "r", "g", "e", "n", "t", "!">>

Asap == <<"a", "s", "a", "p">>

LarkDefaultGroupId == "oc_default"   \* process.env.LARK_DEFAULT_GROUP_ID
LarkMessageIds == {"", "om_1"}       \* message_id of a Lark reply; "" when the call failed

RawMessage(ident, channel, ext, content, name, ts) ==
  [ channel |-> channel, identifierType |-> ident.type, identifierValue |-> ident.value,
    content |-> content, contentType |-> "", senderId |-> "", senderName |-> name,
    senderAvatar |-> "", timestamp |-> ts, externalMessageId |-> ext ]

NoRaw == RawMessage([type |-> "", value |-> ""], "", "", <<>>, "", 0)

\* Two senders on two channels.
InboundInputs ==
  { RawMessage(id, ch, "SM1", Hello, "Taro", 1) : id \in Identifiers, ch \in InboundChannels }

\* One sender on two channels, with provider ids that rotate.
RoutingInputs ==
  { RawMessage([type |-> "phone", value |-> "+81900000001"], ch, ext, Hello, "Taro", 1) :
      ch \in InboundChannels, ext \in ExternalIds }

Min(a, b) == IF a < b THEN a ELSE b

uuidv4(n) == "u" \o ToString(n + 1)

-----------------------------------------------------------------------------
(* The document store *)

Put(table, key, item) ==
  [k \in (DOMAIN table) \cup {key} |-> IF k = key THEN item ELSE table[k]]

Attr(item, name, default) == IF name \in DOMAIN item THEN item[name] ELSE default

-----------------------------------------------------------------------------
(* CustomerRepository *)

mapToCustomer(key, item) ==
  [ customerId  |-> key,
    displayName |-> Attr(item, "display_name", ""),
    avatarUrl   |-> Attr(item, "avatar_url", ""),
    identifiers |-> Attr(item, "identifiers", <<>>),
    tags        |-> Attr(item, "tags", <<>>),
    isVip       |-> Attr(item, "is_vip", FALSE) ]

CustomerRepository_getById(table, customerId) ==
  IF customerId \in DOMAIN table THEN {mapToCustomer(customerId, table[customerId])} ELSE {}

\* Query on identifier-index with Limit 1 and no filter: the first item of the
\* key, in an order the index does not fix among items with equal keys.
IdentifierIndex(table, type, value) ==
  { k \in DOMAIN table :
      /\ "identifier_type" \in DOMAIN table[k]
      /\ table[k].identifier_type = type
      /\ table[k].identifier_value = value }

findByIdentifier(table, type, value) ==
  IF IdentifierIndex(table, type, value) = {}
  THEN {{}}
  ELSE { {mapToCustomer(k, table[k])} : k \in IdentifierIndex(table, type, value) }

\* Mutant of MainItem: the main record written without the attributes the
\* identifier-index is keyed on.
MainItem_NoIndexKeys(customer) ==
  [ display_name |-> customer.displayName,
    avatar_url   |-> customer.avatarUrl,
    identifiers  |-> customer.identifiers,
    tags         |-> customer.tags,
    is_vip       |-> customer.isVip ]

MainItem(customer) ==
  [ display_name |-> customer.displayName,
    avatar_url   |-> customer.avatarUrl,
    identifiers  |-> customer.identifiers,
    tags         |-> customer.tags,
    is_vip       |-> customer.isVip ]
  @@ (IF Len(customer.identifiers) > 0
      THEN [ identifier_type  |-> customer.identifiers[1].type,
             identifier_value |-> customer.identifiers[1].value ]
      ELSE <<>>)

IndexKey(customer, i) ==
  customer.customerId \o "#" \o customer.identifiers[i].type \o "#" \o customer.identifiers[i].value

IndexItem(customer, i) ==
  [ identifier_type     |-> customer.identifiers[i].type,
    identifier_value    |-> customer.identifiers[i].value,
    primary_customer_id |-> customer.customerId ]

\* The first PutCommand of save: the main record.
CustomerPutMain(table, customer) == Put(table, customer.customerId, MainItem(customer))

\* One PutCommand of save's loop over identifiers[1..]: i is the 1-based position.
CustomerPutIndex(table, customer, i) == Put(table, IndexKey(customer, i), IndexItem(customer, i))

-----------------------------------------------------------------------------
(* ThreadRepository *)

mapToThread(key, item) ==
  [ threadId |-> key,
    customerId |-> item.customer_id,
    channel |-> item.channel,
    externalConversationId |-> item.external_conversation_id,
    status |-> item.status,
    assignedTo |-> item.assigned_to,
    assignedToName |-> item.assigned_to_name,
    larkGroupId |-> item.lark_group_id,
    larkMessageId |-> item.lark_message_id,
    lastMessageAt |-> item.last_message_at,
    lastMessagePreview |-> item.last_message_preview,
    unreadCount |-> item.unread_count ]

ThreadItem(thread) ==
  [ customer_id |-> thread.customerId,
    channel |-> thread.channel,
    external_conversation_id |-> thread.externalConversationId,
    status |-> thread.status,
    assigned_to |-> thread.assignedTo,
    assigned_to_name |-> thread.assignedToName,
    lark_group_id |-> thread.larkGroupId,
    lark_message_id |-> thread.larkMessageId,
    last_message_at |-> thread.lastMessageAt,
    last_message_preview |-> thread.lastMessagePreview,
    unread_count |-> thread.unreadCount ]

ThreadRepository_getById(table, threadId) ==
  IF threadId \in DOMAIN table THEN {mapToThread(threadId, table[threadId])} ELSE {}

ThreadRepository_save(table, thread) == Put(table, thread.threadId, ThreadItem(thread))

\* The partition of customer-index the Query reads.
CustomerIndex(table, customerId) == { t \in DOMAIN table : table[t].customer_id = customerId }

\* Mutant of ActiveFilter: the filter without its status condition.
ActiveFilter_IgnoresStatus(item, channel) == item.channel = channel

ActiveFilter(item, channel) == item.channel = channel /\ item.status # "closed"

\* Query on customer-index with Limit 1 and a FilterExpression.  DynamoDB counts
\* Limit against the items it evaluates and filters afterwards: the Query reads
\* the first item of the customer's partition and returns it only if it passes
\* the filter.  The sort key of the index is not part of the repository, so
\* which of the customer's threads comes first is not fixed here.
findActiveByCustomerAndChannel(table, customerId, channel) ==
  IF CustomerIndex(table, customerId) = {}
  THEN {{}}
  ELSE { IF ActiveFilter(table[t], channel) THEN {mapToThread(t, table[t])} ELSE {} :
           t \in CustomerIndex(table, customerId) }

-----------------------------------------------------------------------------
(* MessageRepository *)

MessageItem(message) ==
  [ thread_id |-> message.threadId,
    customer_id |-> message.customerId,
    channel |-> message.channel,
    direction |-> message.direction,
    content |-> message.content,
    content_type |-> message.contentType,
    sender_id |-> message.senderId,
    sender_name |-> message.senderName,
    sender_avatar |-> message.senderAvatar,
    timestamp |-> message.timestamp,
    status |-> message.status,
    external_message_id |-> message.externalMessageId ]

MessageRepository_save(table, message) == Put(table, message.messageId, MessageItem(message))

mapToMessage(key, item) ==
  [ messageId |-> key,
    threadId |-> item.thread_id,
    customerId |-> item.customer_id,
    channel |-> item.channel,
    direction |-> item.direction,
    content |-> item.content,
    contentType |-> item.content_type,
    senderId |-> item.sender_id,
    senderName |-> item.sender_name,
    senderAvatar |-> item.sender_avatar,
    timestamp |-> item.timestamp,
    status |-> item.status,
    externalMessageId |-> item.external_message_id ]

MessageRepository_getById(table, messageId) ==
  IF messageId \in DOMAIN table THEN {mapToMessage(messageId, table[messageId])} ELSE {}

-----------------------------------------------------------------------------
(* MessageService *)

MessageStatuses == {"pending", "sent", "delivered", "read", "failed"}

\* `message.status = status` of MessageService.updateStatus
MessageService_updateStatus(message, status) == [message EXCEPT !.status = status]

-----------------------------------------------------------------------------
(* CustomerService *)

NoIdentifier == [type |-> "", value |-> "", channel |-> "", verified |-> FALSE]

\* CustomerService.create up to its repository.save: the record it builds.
CustomerService_create(input, id) ==
  [ customerId  |-> id,
    displayName |-> input.displayName,
    avatarUrl   |-> input.avatarUrl,
    identifiers |-> <<input.identifier>>,
    tags        |-> <<>>,
    isVip       |-> FALSE ]

\* Mutant of HasIdentifier: only the identifier the customer was created from is compared.
HasIdentifier_PrimaryOnly(customer, identifier) ==
  /\ Len(customer.identifiers) > 0
  /\ customer.identifiers[1].type = identifier.type
  /\ customer.identifiers[1].value = identifier.value

\* The `exists` test of addIdentifier.
HasIdentifier(customer, identifier) ==
  \E i \in 1..Len(customer.identifiers) :
    /\ customer.identifiers[i].type = identifier.type
    /\ customer.identifiers[i].value = identifier.value

-----------------------------------------------------------------------------
(* ThreadService: the record each method saves, given the record it read *)

PreviewLength == 100

substring(str, from, to) == SubSeq(str, from + 1, Min(to, Len(str)))

ThreadService_create(input, id) ==
  [ threadId |-> id,
    customerId |-> input.customerId,
    channel |-> input.channel,
    externalConversationId |-> input.externalConversationId,
    status |-> "open",
    assignedTo |-> "",
    assignedToName |-> "",
    larkGroupId |-> "",
    larkMessageId |-> "",
    lastMessageAt |-> 0,
    lastMessagePreview |-> <<>>,
    unreadCount |-> 0 ]

updateStatus(thread, status) == [thread EXCEPT !.status = status]

\* Mutant of assign: an assigned thread keeps its assignee.
assign_KeepsAssignee(thread, assigneeId, assigneeName) ==
  IF thread.assignedTo = ""
  THEN [thread EXCEPT !.assignedTo = assigneeId, !.assignedToName = assigneeName]
  ELSE thread

assign(thread, assigneeId, assigneeName) ==
  [thread EXCEPT !.assignedTo = assigneeId, !.assignedToName = assigneeName]

\* Mutant of updateLastMessage: the preview is left alone.
updateLastMessage_KeepsPreview(thread, message) ==
  [thread EXCEPT
     !.lastMessageAt = message.timestamp,
     !.unreadCount = IF message.direction = "inbound" THEN @ + 1 ELSE @]

\* Mutant of updateLastMessage: the unread counter is left alone.
updateLastMessage_KeepsUnread(thread, message) ==
  [thread EXCEPT
     !.lastMessageAt = message.timestamp,
     !.lastMessagePreview = substring(message.content, 0, PreviewLength)]

updateLastMessage(thread, message) ==
  [thread EXCEPT
     !.lastMessageAt = message.timestamp,
     !.lastMessagePreview = substring(message.content, 0, PreviewLength),
     !.unreadCount = IF message.direction = "inbound" THEN @ + 1 ELSE @]

\* Mutant of markAsRead: one message is acknowledged, not all.
markAsRead_Decrements(thread) == [thread EXCEPT !.unreadCount = @ - 1]

markAsRead(thread) == [thread EXCEPT !.unreadCount = 0]

setLarkInfo(thread, groupId, messageId) ==
  [thread EXCEPT !.larkGroupId = groupId, !.larkMessageId = messageId]

-----------------------------------------------------------------------------
(* AutomationService *)

\* The keywords of the urgent-keyword rule; the two Japanese words are written
\* by the code points of their characters.
UrgentKeywords ==
  << <<"u", "r", "g", "e", "n", "t">>,
     <<"U+7DCA", "U+6025">>,
     <<"A", "S", "A", "P">>,
     <<"U+30AF", "U+30EC", "U+30FC", "U+30E0">> >>

\* A condition value is a string (`value`) or an array of strings (`isArray`, `keywords`).
NoCondition ==
  [ type |-> "", operator |-> "", value |-> "", attr |-> "", val |-> "",
    isArray |-> FALSE, keywords |-> <<>> ]

NoAction == [type |-> "", groupId |-> "", mention |-> "", level |-> "", tag |-> ""]

\* The rule list loadRules installs.  `attr` and `val` are the halves of a
\* customer_attribute value split at ':'.
Rules ==
  << [ id |-> "vip-notification", enabled |-> TRUE,
       conditions |-> << [NoCondition EXCEPT !.type = "customer_attribute", !.operator = "equals",
                                             !.value = "vip:true", !.attr = "vip", !.val = "true"] >>,
       actions |-> << [NoAction EXCEPT !.type = "notify", !.mention = "@all"],
                      [NoAction EXCEPT !.type = "priority", !.level = "high"] >> ],
     [ id |-> "urgent-keyword", enabled |-> TRUE,
       conditions |-> << [NoCondition EXCEPT !.type = "keyword", !.operator = "contains",
                                             !.isArray = TRUE, !.keywords = UrgentKeywords] >>,
       actions |-> << [NoAction EXCEPT !.type = "priority", !.level = "high"],
                      [NoAction EXCEPT !.type = "tag", !.tag = "urgent"] >> ] >>

LowerOf(c) ==
  CASE c = "A" -> "a" [] c = "E" -> "e" [] c = "G" -> "g" [] c = "N" -> "n" [] c = "P" -> "p"
    [] c = "R" -> "r" [] c = "S" -> "s" [] c = "T" -> "t" [] c = "U" -> "u" [] OTHER -> c

toLowerCase(str) == [i \in 1..Len(str) |-> LowerOf(str[i])]

includes(str, sub) ==
  \E i \in 0..(Len(str) - Len(sub)) : SubSeq(str, i + 1, i + Len(sub)) = sub

\* The channel names and the keywords are both strings in the code; here a
\* channel name is a TLA+ string and a keyword a sequence of characters, so a
\* channel name equals no element of a keyword array.
matchValue(value, condition) ==
  CASE condition.operator = "equals" -> ~condition.isArray /\ value = condition.value
    [] condition.operator = "in"     -> FALSE
    [] condition.operator = "not_in" -> condition.isArray
    [] OTHER -> FALSE

matchKeywords(content, condition) ==
  IF condition.isArray
  THEN \E k \in 1..Len(condition.keywords) :
         includes(toLowerCase(content), toLowerCase(condition.keywords[k]))
  ELSE FALSE

\* `now` is inside Mon-Fri 9-18 or not, as the clock has it.
matchTime(condition, isBusinessHours) ==
  IF condition.value = "business_hours" THEN isBusinessHours ELSE ~isBusinessHours

matchCustomerAttribute(customer, condition) ==
  CASE condition.attr = "vip" -> customer.isVip = (condition.val = "true")
    [] condition.attr = "tag" -> \E i \in 1..Len(customer.tags) : customer.tags[i] = condition.val
    [] OTHER -> FALSE

evaluateCondition(condition, message, customer, thread, isBusinessHours) ==
  CASE condition.type = "channel" -> matchValue(message.channel, condition)
    [] condition.type = "keyword" -> matchKeywords(message.content, condition)
    [] condition.type = "customer_attribute" -> matchCustomerAttribute(customer, condition)
    [] condition.type = "time" -> matchTime(condition, isBusinessHours)
    [] OTHER -> FALSE

conditionsMet(rule, message, customer, thread, isBusinessHours) ==
  \A c \in 1..Len(rule.conditions) :
    evaluateCondition(rule.conditions[c], message, customer, thread, isBusinessHours)

\* Mutant of evaluateUpTo: the first rule that fires wins.
evaluateUpTo_FirstMatch(n, message, customer, thread, isBusinessHours) ==
  LET fired == { k \in 1..n : rules[k].enabled
                               /\ conditionsMet(rules[k], message, customer, thread, isBusinessHours) }
  IN  IF fired = {} THEN <<>>
      ELSE rules[CHOOSE k \in fired : \A j \in fired : k <= j].actions

\* AutomationService.evaluate over rules[1..n]: the actions of the rules that fire, in order.
RECURSIVE evaluateUpTo(_, _, _, _, _)
evaluateUpTo(n, message, customer, thread, isBusinessHours) ==
  IF n = 0 THEN <<>>
  ELSE evaluateUpTo(n - 1, message, customer, thread, isBusinessHours)
         \o (IF rules[n].enabled /\ conditionsMet(rules[n], message, customer, thread, isBusinessHours)
             THEN rules[n].actions ELSE <<>>)

evaluate(message, customer, thread, isBusinessHours) ==
  evaluateUpTo(Len(rules), message, customer, thread, isBusinessHours)

-----------------------------------------------------------------------------
(* Channel providers and their clients *)

CHANNEL_PROVIDERS(channel) ==
  CASE channel \in {"line", "sms", "whatsapp", "webchat"} -> "twilio"
    [] channel = "email" -> "direct"
    [] channel \in {"facebook", "instagram"} -> "meta"
    [] channel = "linkedin" -> "linkedin"

SendResult(success, externalMessageId, error, timestamp) ==
  [ success |-> success, externalMessageId |-> externalMessageId,
    error |-> error, timestamp |-> timestamp ]

ProviderMessageIds == {"X1"}          \* the id a provider gives a message it accepted
ProviderErrors == {"provider error"}  \* error.message of a rejected provider call

\* What a client's sendMessage can answer for a conversation id: its own error
\* when the id is missing, else the provider's acceptance or the error it caught.
ClientSend(conversationId, missing, now) ==
  IF conversationId = ""
  THEN { SendResult(FALSE, "", missing, now) }
  ELSE { SendResult(TRUE, x, "", now) : x \in ProviderMessageIds }
         \cup { SendResult(FALSE, "", e, now) : e \in ProviderErrors }

TwilioClient_sendMessage(thread, now) ==
  ClientSend(thread.externalConversationId, "No conversation ID", now)

\* thread.metadata is never set by ThreadService.create, so the recipient is the
\* conversation id.
MetaClient_sendMessage(thread, now) ==
  ClientSend(thread.externalConversationId, "No recipient ID", now)

LinkedInClient_sendMessage(thread, now) ==
  ClientSend(thread.externalConversationId, "No recipient URN", now)

-----------------------------------------------------------------------------
(* Frames: the locals of one call, and where it stands *)

NoRequest == [threadId |-> "", content |-> <<>>, contentType |-> "", operatorId |-> "", operatorName |-> ""]

Idle ==
  [ op |-> "idle", pc |-> "idle", error |-> "",
    raw |-> NoRaw,                        \* processMessage(rawMessage)
    threadId |-> "", status |-> "",       \* arguments of the ThreadService methods
    assigneeId |-> "", assigneeName |-> "",
    larkGroupId |-> "", larkMessageId |-> "",
    customerId |-> "", identifier |-> NoIdentifier,   \* addIdentifier(customerId, identifier)
    customer |-> {}, thread |-> {}, message |-> {},   \* locals of processMessage
    createdCustomer |-> FALSE, createdThread |-> FALSE,
    method |-> "", fetched |-> {},        \* the ThreadService method running, the thread it read
    saving |-> {}, i |-> 0,               \* CustomerRepository.save: its argument, its loop index
    notified |-> "",                      \* outcome of the Lark call: "", "skipped", "sent", "failed"
    messageId |-> "",                     \* MessageService.updateStatus(messageId, status)
    batch |-> <<>>, k |-> 0,              \* handler: normalizedMessages, position of its loop
    statusCode |-> 0,                     \* handler: the statusCode it answers with
    request |-> NoRequest,                \* sendReply(request)
    sendResult |-> {},                    \* sendReply: `let sendResult`, unset or set
    cardStatus |-> "",                    \* the status the card update carried: "", "success", "failure"
    result |-> {},                        \* the SendResult sendReply returned
    isVip |-> FALSE,                      \* setVip(customerId, isVip)
    isBusinessHours |-> FALSE,            \* evaluate: what the clock says during the call
    actions |-> <<>>,                     \* evaluate: the RuleAction[] it returned
    ret |-> "" ]                          \* where the caller resumes

The(option) == CHOOSE x \in option : TRUE

Throw(l, msg) == [l EXCEPT !.pc = "done", !.error = msg]

DB(c, t, m, n) == [customers |-> c, threads |-> t, messages |-> m, nextId |-> n]

Out(d, l) == [db |-> d, l |-> l]

\* After the main record is written, save loops over identifiers[1..].
AfterPut(l) ==
  IF l.i <= Len(The(l.saving).identifiers)
  THEN [l EXCEPT !.pc = "cust_putIndex"]
  ELSE [l EXCEPT !.pc = l.ret]

-----------------------------------------------------------------------------
(* Steps shared by the operations *)

\* CustomerRepository.save, first PutCommand.
CustPutMain(d, l) ==
  { Out([d EXCEPT !.customers = CustomerPutMain(@, The(l.saving))],
        AfterPut([l EXCEPT !.i = 2])) }

\* CustomerRepository.save, one turn of the loop.
CustPutIndex(d, l) ==
  { Out([d EXCEPT !.customers = CustomerPutIndex(@, The(l.saving), l.i)],
        AfterPut([l EXCEPT !.i = @ + 1])) }

\* `const thread = await this.getById(threadId); if (!thread) throw ...`
ThreadGet(d, l) ==
  { IF ThreadRepository_getById(d.threads, l.threadId) = {}
    THEN Out(d, Throw(l, "Thread not found"))
    ELSE Out(d, [l EXCEPT !.fetched = ThreadRepository_getById(d.threads, l.threadId),
                          !.pc = "thread_save"]) }

Modified(l) ==
  CASE l.method = "updateStatus"      -> updateStatus(The(l.fetched), l.status)
    [] l.method = "assign"            -> assign(The(l.fetched), l.assigneeId, l.assigneeName)
    [] l.method = "updateLastMessage" -> updateLastMessage(The(l.fetched), The(l.message))
    [] l.method = "markAsRead"        -> markAsRead(The(l.fetched))
    [] l.method = "setLarkInfo"       -> setLarkInfo(The(l.fetched), l.larkGroupId, l.larkMessageId)

\* `await this.repository.save(thread)` of the method running.
ThreadSave(d, l) ==
  { Out([d EXCEPT !.threads = ThreadRepository_save(@, Modified(l))],
        [l EXCEPT !.pc = l.ret]) }

-----------------------------------------------------------------------------
(* InboundService.processMessage *)

DateNow == {1, 2}    \* values `new Date()` may take

StartProcessMessage(raw) == [Idle EXCEPT !.op = "processMessage", !.pc = "pm_findCustomer", !.raw = raw]

\* Mutant of PmFindCustomer: the sender name of the message is written to the
\* customer that was found.
PmFindCustomer_RefreshesProfile(d, l) ==
  { IF r = {}
    THEN Out(d, [l EXCEPT !.customer = r, !.pc = "pm_createCustomer"])
    ELSE Out([d EXCEPT !.customers =
                CustomerPutMain(@, [The(r) EXCEPT !.displayName = l.raw.senderName])],
             [l EXCEPT !.customer = r, !.pc = "pm_getActiveThread"]) :
      r \in findByIdentifier(d.customers, l.raw.identifierType, l.raw.identifierValue) }

\* 1. `let customer = await this.customerService.findByIdentifier(...)`
PmFindCustomer(d, l) ==
  { Out(d, [l EXCEPT !.customer = r,
                     !.pc = IF r = {} THEN "pm_createCustomer" ELSE "pm_getActiveThread"]) :
      r \in findByIdentifier(d.customers, l.raw.identifierType, l.raw.identifierValue) }

CreateCustomerInput(raw) ==
  [ displayName |-> IF raw.senderName # "" THEN raw.senderName ELSE "Unknown",
    identifier  |-> [ type |-> raw.identifierType, value |-> raw.identifierValue,
                      channel |-> raw.channel, verified |-> TRUE ],
    avatarUrl   |-> raw.senderAvatar ]

\* `if (!customer) customer = await this.customerService.create(...)`
PmCreateCustomer(d, l) ==
  CustPutMain([d EXCEPT !.nextId = @ + 1],
              [l EXCEPT !.customer = {CustomerService_create(CreateCustomerInput(l.raw), uuidv4(d.nextId))},
                        !.saving = {CustomerService_create(CreateCustomerInput(l.raw), uuidv4(d.nextId))},
                        !.createdCustomer = TRUE,
                        !.ret = "pm_getActiveThread"])

\* 2. `let thread = await this.threadService.getActiveThread(customer.customerId, channel)`
PmGetActiveThread(d, l) ==
  { Out(d, [l EXCEPT !.thread = r,
                     !.pc = IF r = {} THEN "pm_createThread" ELSE "pm_store"]) :
      r \in findActiveByCustomerAndChannel(d.threads, The(l.customer).customerId, l.raw.channel) }

CreateThreadInput(l) ==
  [ customerId |-> The(l.customer).customerId,
    channel |-> l.raw.channel,
    externalConversationId |-> l.raw.externalMessageId ]

\* `if (!thread) thread = await this.threadService.create(...)`
PmCreateThread(d, l) ==
  { Out([d EXCEPT !.nextId = @ + 1,
                  !.threads = ThreadRepository_save(@, ThreadService_create(CreateThreadInput(l), uuidv4(d.nextId)))],
        [l EXCEPT !.thread = {ThreadService_create(CreateThreadInput(l), uuidv4(d.nextId))},
                  !.createdThread = TRUE,
                  !.pc = "pm_store"]) }

\* 3. the UnifiedMessage processMessage builds
InboundMessage(l, id, now) ==
  [ messageId |-> id,
    threadId |-> The(l.thread).threadId,
    customerId |-> The(l.customer).customerId,
    channel |-> l.raw.channel,
    direction |-> "inbound",
    content |-> l.raw.content,
    contentType |-> IF l.raw.contentType # "" THEN l.raw.contentType ELSE "text",
    senderId |-> IF l.raw.senderId # "" THEN l.raw.senderId ELSE The(l.customer).customerId,
    senderName |-> IF l.raw.senderName # "" THEN l.raw.senderName ELSE The(l.customer).displayName,
    senderAvatar |-> IF l.raw.senderAvatar # "" THEN l.raw.senderAvatar ELSE The(l.customer).avatarUrl,
    timestamp |-> IF l.raw.timestamp # 0 THEN l.raw.timestamp ELSE now,
    status |-> "delivered",
    externalMessageId |-> l.raw.externalMessageId ]

\* `await this.messageService.store(message)`, then on to 4. updateLastMessage
PmStore(d, l) ==
  { Out([d EXCEPT !.nextId = @ + 1,
                  !.messages = MessageRepository_save(@, InboundMessage(l, uuidv4(d.nextId), now))],
        [l EXCEPT !.message = {InboundMessage(l, uuidv4(d.nextId), now)},
                  !.method = "updateLastMessage",
                  !.threadId = The(l.thread).threadId,
                  !.ret = "pm_notify",
                  !.pc = "thread_get"]) :
      now \in IF l.raw.timestamp # 0 THEN {0} ELSE DateNow }

\* 5. LarkNotificationService.sendMessageNotification(message, customer, thread), with
\* the thread processMessage holds since step 2.  LarkClient.sendInteractiveCard
\* catches its errors: it answers with a message id, or without one.
PmNotify(d, l) ==
  IF (IF The(l.thread).larkGroupId # "" THEN The(l.thread).larkGroupId ELSE LarkDefaultGroupId) = ""
  THEN { Out(d, [l EXCEPT !.notified = "skipped", !.pc = "done"]) }
  ELSE { IF mid # "" /\ The(l.thread).larkMessageId = ""
         THEN Out(d, [l EXCEPT !.notified = "sent",
                               !.method = "setLarkInfo",
                               !.larkGroupId = IF The(l.thread).larkGroupId # ""
                                               THEN The(l.thread).larkGroupId ELSE LarkDefaultGroupId,
                               !.larkMessageId = mid,
                               !.ret = "done",
                               !.pc = "thread_get"])
         ELSE Out(d, [l EXCEPT !.notified = IF mid # "" THEN "sent" ELSE "failed", !.pc = "done"]) :
           mid \in LarkMessageIds }

-----------------------------------------------------------------------------
(* The other entry points *)

StartUpdateStatus(threadId, status) ==
  [Idle EXCEPT !.op = "updateStatus", !.method = "updateStatus", !.pc = "thread_get",
               !.threadId = threadId, !.status = status, !.ret = "done"]

StartAssign(threadId, assigneeId, assigneeName) ==
  [Idle EXCEPT !.op = "assign", !.method = "assign", !.pc = "thread_get",
               !.threadId = threadId, !.assigneeId = assigneeId, !.assigneeName = assigneeName,
               !.ret = "done"]

StartMarkAsRead(threadId) ==
  [Idle EXCEPT !.op = "markAsRead", !.method = "markAsRead", !.pc = "thread_get",
               !.threadId = threadId, !.ret = "done"]

StartAddIdentifier(customerId, identifier) ==
  [Idle EXCEPT !.op = "addIdentifier", !.pc = "ai_get",
               !.customerId = customerId, !.identifier = identifier]

\* CustomerService.addIdentifier up to its repository.save
AiGet(d, l) ==
  { IF CustomerRepository_getById(d.customers, l.customerId) = {}
    THEN Out(d, Throw(l, "Customer not found"))
    ELSE IF HasIdentifier(The(CustomerRepository_getById(d.customers, l.customerId)), l.identifier)
    THEN Out(d, [l EXCEPT !.pc = "done"])
    ELSE Out(d, [l EXCEPT
           !.saving = {[The(CustomerRepository_getById(d.customers, l.customerId))
                          EXCEPT !.identifiers = Append(@, l.identifier)]},
           !.ret = "done",
           !.pc = "cust_putMain"]) }

StartSetVip(customerId, isVip) ==
  [Idle EXCEPT !.op = "setVip", !.pc = "cu_get", !.customerId = customerId, !.isVip = isVip]

\* CustomerService.update(customerId, { isVip }) up to its repository.save
CuGet(d, l) ==
  { IF CustomerRepository_getById(d.customers, l.customerId) = {}
    THEN Out(d, Throw(l, "Customer not found"))
    ELSE Out(d, [l EXCEPT
           !.saving = {[The(CustomerRepository_getById(d.customers, l.customerId))
                          EXCEPT !.isVip = l.isVip]},
           !.ret = "done",
           !.pc = "cust_putMain"]) }

StartMessageStatus(messageId, status) ==
  [Idle EXCEPT !.op = "messageStatus", !.pc = "ms_get", !.messageId = messageId, !.status = status]

\* `const message = await this.getById(messageId); if (!message) throw ...`
MsGet(d, l) ==
  { IF MessageRepository_getById(d.messages, l.messageId) = {}
    THEN Out(d, Throw(l, "Message not found"))
    ELSE Out(d, [l EXCEPT !.message = MessageRepository_getById(d.messages, l.messageId),
                          !.pc = "ms_save"]) }

\* `message.status = status; await this.repository.save(message)`
MsSave(d, l) ==
  { Out([d EXCEPT !.messages = MessageRepository_save(@, MessageService_updateStatus(The(l.message), l.status))],
        [l EXCEPT !.pc = "done"]) }

-----------------------------------------------------------------------------
(* OutboundService.sendReply *)

StartSendReply(request) == [Idle EXCEPT !.op = "sendReply", !.pc = "sr_getThread", !.request = request]

\* Mutant of SrGetThread: a missing thread is thrown, as the ThreadService methods do.
SrGetThread_Throws(d, l) ==
  { IF ThreadRepository_getById(d.threads, l.request.threadId) = {}
    THEN Out(d, Throw(l, "Thread not found"))
    ELSE Out(d, [l EXCEPT !.thread = ThreadRepository_getById(d.threads, l.request.threadId),
                          !.pc = "sr_send"]) }

\* 1. `const thread = await this.threadService.getById(request.threadId)`
SrGetThread(d, l) ==
  IF ThreadRepository_getById(d.threads, l.request.threadId) = {}
  THEN { Out(d, [l EXCEPT !.result = {SendResult(FALSE, "", "Thread not found", now)}, !.pc = "done"]) :
           now \in DateNow }
  ELSE { Out(d, [l EXCEPT !.thread = ThreadRepository_getById(d.threads, l.request.threadId),
                          !.pc = "sr_send"]) }

\* The switch over the provider of the thread's channel.
ProviderSend(thread, now) ==
  CASE CHANNEL_PROVIDERS(thread.channel) = "twilio"   -> TwilioClient_sendMessage(thread, now)
    [] CHANNEL_PROVIDERS(thread.channel) = "meta"     -> MetaClient_sendMessage(thread, now)
    [] CHANNEL_PROVIDERS(thread.channel) = "linkedin" -> LinkedInClient_sendMessage(thread, now)
    [] OTHER -> { SendResult(FALSE, "", "Unsupported channel", now) }

\* Mutant of ShouldStore: the message is stored whatever the provider answered.
ShouldStore_Always(sendResult) == TRUE

\* `if (sendResult.success)`
ShouldStore(sendResult) == sendResult.success

\* 2. the provider call
SrSend(d, l) ==
  { Out(d, [l EXCEPT !.sendResult = {r},
                     !.pc = IF ShouldStore(r) THEN "sr_store" ELSE "sr_updateCard"]) :
      r \in UNION { ProviderSend(The(l.thread), now) : now \in DateNow } }

\* Mutant of OutboundMessage: the provider's id is not copied to the message.
OutboundMessage_NoExternalId(l, id, now) ==
  [ messageId |-> id,
    threadId |-> The(l.thread).threadId,
    customerId |-> The(l.thread).customerId,
    channel |-> The(l.thread).channel,
    direction |-> "outbound",
    content |-> l.request.content,
    contentType |-> IF l.request.contentType # "" THEN l.request.contentType ELSE "text",
    senderId |-> l.request.operatorId,
    senderName |-> l.request.operatorName,
    senderAvatar |-> "",
    timestamp |-> now,
    status |-> "sent",
    externalMessageId |-> "" ]

\* 3. the UnifiedMessage sendReply builds
OutboundMessage(l, id, now) ==
  [ messageId |-> id,
    threadId |-> The(l.thread).threadId,
    customerId |-> The(l.thread).customerId,
    channel |-> The(l.thread).channel,
    direction |-> "outbound",
    content |-> l.request.content,
    contentType |-> IF l.request.contentType # "" THEN l.request.contentType ELSE "text",
    senderId |-> l.request.operatorId,
    senderName |-> l.request.operatorName,
    senderAvatar |-> "",
    timestamp |-> now,
    status |-> "sent",
    externalMessageId |-> The(l.sendResult).externalMessageId ]

\* `await this.messageService.store(message)`, then on to updateLastMessage
SrStore(d, l) ==
  { Out([d EXCEPT !.nextId = @ + 1,
                  !.messages = MessageRepository_save(@, OutboundMessage(l, uuidv4(d.nextId), now))],
        [l EXCEPT !.message = {OutboundMessage(l, uuidv4(d.nextId), now)},
                  !.method = "updateLastMessage",
                  !.threadId = The(l.thread).threadId,
                  !.ret = "sr_updateCard",
                  !.pc = "thread_get"]) :
      now \in DateNow }

\* Mutant of CardUpdated: an error of the Lark call is passed on to the caller.
CardUpdated_Rethrows(l, ok) ==
  IF ok THEN [l EXCEPT !.notified = "sent", !.result = l.sendResult, !.pc = "done"]
  ELSE Throw([l EXCEPT !.notified = "failed"], "Lark update card error")

\* LarkClient.updateCard answers success or, from its catch block, failure;
\* updateMessageStatus drops the answer and sendReply returns sendResult.
CardUpdated(l, ok) ==
  [l EXCEPT !.notified = IF ok THEN "sent" ELSE "failed", !.result = l.sendResult, !.pc = "done"]

\* 4. LarkNotificationService.updateMessageStatus(thread, sendResult), with the
\* thread sendReply holds since step 1, and `return sendResult`.
SrUpdateCard(d, l) ==
  IF The(l.thread).larkMessageId = ""
  THEN { Out(d, [l EXCEPT !.notified = "skipped", !.result = l.sendResult, !.pc = "done"]) }
  ELSE { Out(d, CardUpdated([l EXCEPT !.cardStatus = IF The(l.sendResult).success
                                                     THEN "success" ELSE "failure"], ok)) :
           ok \in BOOLEAN }

-----------------------------------------------------------------------------
(* One step of a call, and a call run to its end *)

StepSet(d, l) ==
  CASE l.pc = "pm_findCustomer"    -> PmFindCustomer(d, l)
    [] l.pc = "pm_createCustomer"  -> PmCreateCustomer(d, l)
    [] l.pc = "pm_getActiveThread" -> PmGetActiveThread(d, l)
    [] l.pc = "pm_createThread"    -> PmCreateThread(d, l)
    [] l.pc = "pm_store"           -> PmStore(d, l)
    [] l.pc = "pm_notify"          -> PmNotify(d, l)
    [] l.pc = "ai_get"             -> AiGet(d, l)
    [] l.pc = "cu_get"             -> CuGet(d, l)
    [] l.pc = "ms_get"             -> MsGet(d, l)
    [] l.pc = "ms_save"            -> MsSave(d, l)
    [] l.pc = "sr_getThread"       -> SrGetThread(d, l)
    [] l.pc = "sr_send"            -> SrSend(d, l)
    [] l.pc = "sr_store"           -> SrStore(d, l)
    [] l.pc = "sr_updateCard"      -> SrUpdateCard(d, l)
    [] l.pc = "cust_putMain"       -> CustPutMain(d, l)
    [] l.pc = "cust_putIndex"      -> CustPutIndex(d, l)
    [] l.pc = "thread_get"         -> ThreadGet(d, l)
    [] l.pc = "thread_save"        -> ThreadSave(d, l)

RECURSIVE Run(_, _)
Run(d, l) ==
  IF l.pc = "done" THEN {Out(d, l)}
  ELSE UNION { Run(r.db, r.l) : r \in StepSet(d, l) }

\* The steps that are one command sent to DynamoDB.
StoreSteps ==
  { "pm_findCustomer", "pm_createCustomer", "pm_getActiveThread", "pm_createThread", "pm_store",
    "ai_get", "cu_get", "ms_get", "ms_save", "sr_getThread", "sr_store",
    "cust_putMain", "cust_putIndex", "thread_get", "thread_save" }

\* One step when the store may reject a command: `client.send` throws, nothing
\* is written, and no caller up to the entry point catches the error.
StepSetUnreliable(d, l) ==
  StepSet(d, l) \cup (IF l.pc \in StoreSteps THEN {Out(d, Throw(l, "store error"))} ELSE {})

RECURSIVE RunUnreliable(_, _)
RunUnreliable(d, l) ==
  IF l.pc = "done" THEN {Out(d, l)}
  ELSE UNION { RunUnreliable(r.db, r.l) : r \in StepSetUnreliable(d, l) }

Cur == DB(customers, threads, messages, nextId)

Commit(d) ==
  /\ customers' = d.customers
  /\ threads' = d.threads
  /\ messages' = d.messages
  /\ nextId' = d.nextId

AllIdle == \A p \in Procs : proc[p].pc = "idle"

-----------------------------------------------------------------------------
(* The inbound webhook handler, from its loop over the normalized messages on *)

\* Mutant of HasIdentifiers: only the identifier type is looked at.
HasIdentifiers_TypeOnly(message) == message.identifierType # ""

\* `message.identifierType && message.identifierValue`
HasIdentifiers(message) == message.identifierType # "" /\ message.identifierValue # ""

StartHandler(batch) == [Idle EXCEPT !.op = "handler", !.pc = "h_loop", !.batch = batch, !.k = 1]

\* The loop of the handler: each message that has its identifiers is processed to
\* the end before the next one is looked at; an error of processMessage ends the
\* loop in the catch block.
RECURSIVE RunHandler(_, _)
RunHandler(d, l) ==
  IF l.k > Len(l.batch)
  THEN { Out(d, [l EXCEPT !.pc = "done", !.statusCode = 200]) }
  ELSE IF HasIdentifiers(l.batch[l.k])
  THEN UNION { IF r.l.error = ""
               THEN RunHandler(r.db, [l EXCEPT !.k = @ + 1])
               ELSE { Out(r.db, [l EXCEPT !.pc = "done", !.statusCode = 500]) } :
                 r \in Run(d, StartProcessMessage(l.batch[l.k])) }
  ELSE RunHandler(d, [l EXCEPT !.k = @ + 1])

\* A call that overlaps no other call.
Call(l0) ==
  /\ AllIdle
  /\ \E r \in Run(Cur, l0) : Commit(r.db) /\ last' = r.l
  /\ UNCHANGED <<proc, rules, cacheVars>>

\* A call that overlaps no other call, with a store that may reject commands.
CallUnreliable(l0) ==
  /\ AllIdle
  /\ \E r \in RunUnreliable(Cur, l0) : Commit(r.db) /\ last' = r.l
  /\ UNCHANGED <<proc, rules, cacheVars>>

\* The customers the engine created (main records), and an id that names none.
MainCustomers == { k \in DOMAIN customers : "identifiers" \in DOMAIN customers[k] }
UnknownId == "u0"

ChannelOf(type) == IF type = "email" THEN "email" ELSE "sms"

NewIdentifier(id) == [type |-> id.type, value |-> id.value, channel |-> ChannelOf(id.type), verified |-> TRUE]

\* processMessage for one of `inputs`, while fewer than `max` messages are stored.
Inbound(inputs, max) ==
  /\ Cardinality(DOMAIN messages) < max
  /\ \E raw \in inputs : Call(StartProcessMessage(raw))

ProcessMessage == Inbound(InboundInputs, MaxMessages)

RouteMessage == Inbound(RoutingInputs, MaxRouted)

Arrive == Inbound(InboundInputs, MaxPrefix)

UpdateStatus ==
  \E t \in DOMAIN threads \cup {UnknownId}, s \in ThreadStatuses : Call(StartUpdateStatus(t, s))

AddIdentifier ==
  \E c \in MainCustomers \cup {UnknownId}, id \in Identifiers :
    Call(StartAddIdentifier(c, NewIdentifier(id)))

\* Normalized messages of a webhook event: with their identifiers, or lacking
\* the type, the value, or both.
WebhookMessages ==
  { RawMessage([type |-> "phone", value |-> "+81900000001"], "sms", "SM1", Hello, "Taro", 1),
    RawMessage([type |-> "email", value |-> "a@example.com"], "email", "SM2", Hello, "Taro", 1),
    RawMessage([type |-> "", value |-> "+81900000001"], "sms", "SM3", Hello, "Taro", 1),
    RawMessage([type |-> "phone", value |-> ""], "sms", "SM4", Hello, "Taro", 1),
    RawMessage([type |-> "", value |-> ""], "sms", "SM5", Hello, "Taro", 1) }

RECURSIVE SeqsUpTo(_, _)
SeqsUpTo(S, n) ==
  IF n = 0 THEN {<<>>}
  ELSE SeqsUpTo(S, n - 1) \cup { Append(q, x) : q \in { q \in SeqsUpTo(S, n - 1) : Len(q) = n - 1 }, x \in S }

Batches == SeqsUpTo(WebhookMessages, MaxBatch)

\* One webhook event, handled to the end.
Webhook ==
  /\ Cardinality(DOMAIN messages) < MaxWebhook
  /\ AllIdle
  /\ \E batch \in Batches :
       \E r \in RunHandler(Cur, StartHandler(batch)) : Commit(r.db) /\ last' = r.l
  /\ UNCHANGED <<proc, rules, cacheVars>>

\* Two senders, each on the channel of its identifier: one thread on a Twilio
\* channel and one on the channel without provider.
ConversationInputs ==
  { RawMessage(id, ChannelOf(id.type), "SM1", Hello, "Taro", 1) : id \in Identifiers }

ReceiveForReply == Inbound(ConversationInputs, MaxConversation)

LongText == [i \in 1..(PreviewLength + 1) |-> "x"]

Requests(threadIds) ==
  { [ threadId |-> t, content |-> c, contentType |-> "text",
      operatorId |-> "ou_1", operatorName |-> "Hana" ] :
      t \in threadIds, c \in {Hello, LongText} }

SendReply ==
  /\ Cardinality(DOMAIN messages) < MaxConversation
  /\ \E request \in Requests(DOMAIN threads \cup {UnknownId}) : Call(StartSendReply(request))

ReceiveUnreliable ==
  /\ nextId < MaxUnreliable
  /\ \E raw \in InboundInputs : CallUnreliable(StartProcessMessage(raw))

SendReplyUnreliable ==
  /\ nextId < MaxUnreliable
  /\ \E request \in Requests(DOMAIN threads) : CallUnreliable(StartSendReply(request))

\* One sender, with and without the keywords of the urgent-keyword rule.
AutomationInputs ==
  { RawMessage([type |-> "phone", value |-> "+81900000001"], "sms", "SM1", content, "Taro", 1) :
      content \in {Hello, Urgent, Asap} }

ReceiveForRules == Inbound(AutomationInputs, MaxAutomation)

SetVip ==
  \E c \in MainCustomers \cup {UnknownId}, v \in BOOLEAN : Call(StartSetVip(c, v))

\* Mutant of RulesAfterEvaluate: a rule that fired is switched off.
RulesAfterEvaluate_DisablesFired(rs, message, customer, thread, isBusinessHours) ==
  [n \in 1..Len(rs) |->
     IF rs[n].enabled /\ conditionsMet(rs[n], message, customer, thread, isBusinessHours)
     THEN [rs[n] EXCEPT !.enabled = FALSE] ELSE rs[n]]

\* this.rules after a call of evaluate: the loop reads the rules and pushes
\* their actions to a new array; nothing is assigned to the list or its rules.
RulesAfterEvaluate(rs, message, customer, thread, isBusinessHours) == rs

\* AutomationService.evaluate on a stored message, its customer and its thread.
\* It sends no command to a table.
Evaluate ==
  /\ AllIdle
  /\ \E m \in DOMAIN messages, isBusinessHours \in BOOLEAN :
       LET message  == mapToMessage(m, messages[m])
           customer == CustomerRepository_getById(customers, message.customerId)
           thread   == ThreadRepository_getById(threads, message.threadId)
       IN  /\ customer # {} /\ thread # {}
           /\ last' = [Idle EXCEPT !.op = "evaluate", !.pc = "done",
                                   !.message = {message}, !.customer = customer, !.thread = thread,
                                   !.isBusinessHours = isBusinessHours,
                                   !.actions = evaluate(message, The(customer), The(thread), isBusinessHours)]
           /\ rules' = RulesAfterEvaluate(rules, message, The(customer), The(thread), isBusinessHours)
  /\ UNCHANGED <<customers, threads, messages, nextId, proc, cacheVars>>

\* One sender whose messages carry different names and avatars.
HintInputs ==
  { [RawMessage([type |-> "phone", value |-> "+81900000001"], "sms", "SM1", Hello, name, 1)
       EXCEPT !.senderAvatar = avatar] :
      name \in {"Taro", "Jiro", ""}, avatar \in {"", "https://cdn.example.com/a.png"} }

ReceiveWithHints == Inbound(HintInputs, MaxHints)

\* The operations on the threads of one sender on one channel.
ThreadInputs == { RawMessage([type |-> "phone", value |-> "+81900000001"], "sms", "SM1", Hello, "Taro", 1) }

ReceiveOnThread == Inbound(ThreadInputs, MaxThreadMessages)

ReplyOnThread ==
  /\ Cardinality(DOMAIN messages) < MaxThreadMessages
  /\ \E request \in Requests(DOMAIN threads) : Call(StartSendReply(request))

UpdateStatusOnThread ==
  /\ Cardinality(DOMAIN messages) < MaxThreadMessages
  /\ UpdateStatus

Assignees == { [id |-> "ou_1", name |-> "Hana"], [id |-> "ou_2", name |-> "Ken"] }

Assign ==
  /\ Cardinality(DOMAIN messages) < MaxThreadMessages
  /\ \E t \in DOMAIN threads \cup {UnknownId}, a \in Assignees : Call(StartAssign(t, a.id, a.name))

MarkAsRead ==
  /\ Cardinality(DOMAIN messages) < MaxThreadMessages
  /\ \E t \in DOMAIN threads \cup {UnknownId} : Call(StartMarkAsRead(t))

\* One sender on one channel.
SameInputs == { RawMessage([type |-> "phone", value |-> "+81900000001"], "sms", ext, content, "Taro", 1) :
                  ext \in ExternalIds, content \in {Hello, Urgent} }

ReceiveSame == Inbound(SameInputs, MaxSame)

\* One inbound message, then status updates of the stored messages.
StatusInputs == { RawMessage([type |-> "phone", value |-> "+81900000001"], "sms", ext, Hello, "Taro", 1) :
                    ext \in ExternalIds }

ReceiveForStatus == Inbound(StatusInputs, MaxStatusMessages)

UpdateMessageStatus ==
  \E m \in DOMAIN messages \cup {UnknownId}, s \in MessageStatuses : Call(StartMessageStatus(m, s))

\* Concurrent execution units: each takes one call and runs it step by step.
BeginProcessMessage(p) ==
  /\ proc[p].pc = "idle"
  /\ \E raw \in InboundInputs : proc' = [proc EXCEPT ![p] = StartProcessMessage(raw)]
  /\ UNCHANGED <<customers, threads, messages, nextId, last, rules, cacheVars>>

BeginUpdateStatus(p) ==
  /\ proc[p].pc = "idle"
  /\ \E t \in DOMAIN threads, s \in ThreadStatuses :
       proc' = [proc EXCEPT ![p] = StartUpdateStatus(t, s)]
  /\ UNCHANGED <<customers, threads, messages, nextId, last, rules, cacheVars>>

Step(p) ==
  /\ proc[p].pc \notin {"idle", "done"}
  /\ \E r \in StepSet(Cur, proc[p]) : Commit(r.db) /\ proc' = [proc EXCEPT ![p] = r.l]
  /\ UNCHANGED <<last, rules, cacheVars>>

AllDone == \A p \in Procs : proc[p].pc = "done"

\* One sender on one channel, with messages that differ in content and time.
RaceInputs ==
  { RawMessage([type |-> "phone", value |-> "+81900000001"], "sms", "SM1", Hello, "Taro", 1),
    RawMessage([type |-> "phone", value |-> "+81900000001"], "sms", "SM2", Urgent, "Taro", 2) }

ArriveFirst == Inbound(RaceInputs, MaxPrefix)

\* The two webhook invocations that overlap.
Racers == {1, 2}

BeginRaceMessage(p) ==
  /\ proc[p].pc = "idle"
  /\ DOMAIN threads # {}
  /\ \E raw \in RaceInputs : proc' = [proc EXCEPT ![p] = StartProcessMessage(raw)]
  /\ UNCHANGED <<customers, threads, messages, nextId, last, rules, cacheVars>>

-----------------------------------------------------------------------------
(* The in-process profile caches *)

Tick ==
  /\ clock < MaxClock
  /\ clock' = clock + 1
  /\ UNCHANGED <<storeVars, profileCache, pending, igCache, served, used, igSets>>

NoServed == [op |-> "", key |-> "", profile |-> {}, api |-> FALSE, removed |-> 0, at |-> 0]

Served(op, key, profile, api, removed) ==
  [op |-> op, key |-> key, profile |-> profile, api |-> api, removed |-> removed, at |-> clock]

(* ProfileCache (Messenger) *)

Psids == {"1001", "1002", "1003"}

MessengerProfiles == {"Jane Smith"}

CacheKeys(cache) == { cache[i].psid : i \in 1..Len(cache) }

CacheDelete(cache, psid) == SelectSeq(cache, LAMBDA e : e.psid # psid)

CacheEntry(cache, psid) == CHOOSE e \in { cache[i] : i \in 1..Len(cache) } : e.psid = psid

\* Map.prototype.set: a present key keeps its place, a new key goes last.
CacheSet(cache, entry) ==
  IF entry.psid \in CacheKeys(cache)
  THEN [i \in 1..Len(cache) |-> IF cache[i].psid = entry.psid THEN entry ELSE cache[i]]
  ELSE Append(cache, entry)

ProfileCache_get(cache, psid, now) ==
  IF psid \notin CacheKeys(cache)
  THEN [cache |-> cache, profile |-> {}]
  ELSE LET entry == CacheEntry(cache, psid)
       IN  IF now - entry.timestamp > ttlMs
           THEN [cache |-> CacheDelete(cache, psid), profile |-> {}]
           ELSE [cache |-> CacheSet(CacheDelete(cache, psid), entry), profile |-> {entry.profile}]

ProfileCache_set(cache, psid, profile, now) ==
  LET kept == IF Len(cache) >= maxSize /\ cache # <<>> THEN Tail(cache) ELSE cache
  IN  CacheSet(kept, [psid |-> psid, profile |-> profile, timestamp |-> now])

Touch(u, psid) == Append(SelectSeq(u, LAMBDA k : k # psid), psid)

ProfileCalls == [psid : Psids, useCache : BOOLEAN]

Inflight == { c \in ProfileCalls : pending[c] > 0 }

RECURSIVE SumPending(_)
SumPending(calls) ==
  IF calls = {} THEN 0
  ELSE LET c == CHOOSE x \in calls : TRUE IN pending[c] + SumPending(calls \ {c})

\* getMessengerProfile up to its await: the cache is consulted, and on a miss
\* the request to the Graph API is sent.
LookUp ==
  \E psid \in Psids, useCache \in BOOLEAN :
    LET got  == IF useCache THEN ProfileCache_get(profileCache, psid, clock)
                ELSE [cache |-> profileCache, profile |-> {}]
        call == [psid |-> psid, useCache |-> useCache]
    IN  /\ profileCache' = got.cache
        /\ IF got.profile # {}
           THEN /\ served' = Served("getMessengerProfile", psid, got.profile, FALSE, 0)
                /\ used' = Touch(used, psid)
                /\ UNCHANGED pending
           ELSE /\ SumPending(ProfileCalls) < MaxInflight
                /\ pending' = [pending EXCEPT ![call] = @ + 1]
                /\ UNCHANGED <<served, used>>
        /\ UNCHANGED <<storeVars, igCache, clock, igSets>>

\* getMessengerProfile after its await: the Graph API answered with a profile,
\* which is cached when the cache is in use, or the request failed.
Respond ==
  \E call \in Inflight, answer \in { {p} : p \in MessengerProfiles } \cup { {} } :
    /\ pending' = [pending EXCEPT ![call] = @ - 1]
    /\ served' = Served("getMessengerProfile", call.psid, answer, TRUE, 0)
    /\ IF answer # {} /\ call.useCache
       THEN /\ profileCache' = ProfileCache_set(profileCache, call.psid, The(answer), clock)
            /\ used' = Touch(used, call.psid)
       ELSE UNCHANGED <<profileCache, used>>
    /\ UNCHANGED <<storeVars, igCache, clock, igSets>>

(* InstagramProfileCache *)

UserIds == {"ig1", "ig2"}

InstagramProfiles == {"alice", "bob"}

\* The optional argument ttl of set: absent, or a number of milliseconds.
TtlArguments == { {} } \cup { {0}, {2} }

Expired(cached, now) == now - cached.cachedAt > cached.ttl

\* `ttl || this.defaultTtl`
TtlOrDefault(ttl) == IF ttl = {} \/ The(ttl) = 0 THEN defaultTtl ELSE The(ttl)

Without(f, keys) == [k \in DOMAIN f \ keys |-> f[k]]

With(f, key, value) == [k \in DOMAIN f \cup {key} |-> IF k = key THEN value ELSE f[k]]

IgGet ==
  \E userId \in UserIds :
    /\ IF userId \notin DOMAIN igCache
       THEN /\ served' = Served("get", userId, {}, FALSE, 0)
            /\ UNCHANGED igCache
       ELSE IF Expired(igCache[userId], clock)
       THEN /\ igCache' = Without(igCache, {userId})
            /\ served' = Served("get", userId, {}, FALSE, 0)
       ELSE /\ served' = Served("get", userId, {igCache[userId].profile}, FALSE, 0)
            /\ UNCHANGED igCache
    /\ UNCHANGED <<storeVars, profileCache, pending, clock, used, igSets>>

IgSet ==
  \E userId \in UserIds, profile \in InstagramProfiles, ttl \in TtlArguments :
    /\ igCache' = With(igCache, userId,
                       [profile |-> profile, cachedAt |-> clock, ttl |-> TtlOrDefault(ttl)])
    /\ igSets' = With(igSets, userId, [profile |-> profile, at |-> clock, ttl |-> ttl])
    /\ served' = Served("set", userId, {}, FALSE, 0)
    /\ UNCHANGED <<storeVars, profileCache, pending, clock, used>>

\* clear(userId?): one entry, or all of them when no userId is given.
IgClear ==
  \E userId \in UserIds \cup {""} :
    LET cleared == IF userId # "" THEN {userId} ELSE UserIds
    IN  /\ igCache' = Without(igCache, cleared)
        /\ igSets' = Without(igSets, cleared)
        /\ served' = Served("clear", userId, {}, FALSE, 0)
        /\ UNCHANGED <<storeVars, profileCache, pending, clock, used>>

IgCleanup ==
  LET expired == { u \in DOMAIN igCache : Expired(igCache[u], clock) }
  IN  /\ igCache' = Without(igCache, expired)
      /\ served' = Served("cleanup", "", {}, FALSE, Cardinality(expired))
      /\ UNCHANGED <<storeVars, profileCache, pending, clock, used, igSets>>

-----------------------------------------------------------------------------
(* Specifications *)

Init ==
  /\ customers = <<>>
  /\ threads = <<>>
  /\ messages = <<>>
  /\ nextId = 0
  /\ proc = [p \in Procs |-> Idle]
  /\ last = Idle
  /\ rules = Rules
  /\ profileCache = <<>>
  /\ pending = [c \in ProfileCalls |-> 0]
  /\ igCache = <<>>
  /\ clock = 0
  /\ served = NoServed
  /\ used = <<>>
  /\ igSets = <<>>

\* Non-overlapping inbound messages and status changes.
NextInbound == ProcessMessage \/ UpdateStatus

SpecInbound == Init /\ [][NextInbound]_vars

\* Non-overlapping inbound messages of one sender, and status changes.
NextRouting == RouteMessage \/ UpdateStatus

SpecRouting == Init /\ [][NextRouting]_vars

\* Non-overlapping inbound messages and identifier attachments.
NextIdentity == ProcessMessage \/ AddIdentifier

SpecIdentity == Init /\ [][NextIdentity]_vars

\* Non-overlapping inbound messages and operator replies.
NextOutbound == ReceiveForReply \/ SendReply

SpecOutbound == Init /\ [][NextOutbound]_vars

\* Non-overlapping inbound messages, replies and identifier attachments, over a
\* store that may reject a command of a message or of a reply.
NextUnreliable == ReceiveUnreliable \/ SendReplyUnreliable \/ AddIdentifier

SpecUnreliable == Init /\ [][NextUnreliable]_vars

\* Non-overlapping inbound messages, VIP flags and rule evaluations.
NextAutomation == ReceiveForRules \/ SetVip \/ Evaluate

SpecAutomation == Init /\ [][NextAutomation]_vars

\* Non-overlapping inbound messages of one sender with varying hints, and VIP flags.
NextHints == ReceiveWithHints \/ SetVip

SpecHints == Init /\ [][NextHints]_vars

\* Concurrent inbound messages of one sender on the thread a first message opened.
NextRace ==
  \/ ArriveFirst
  \/ \E p \in Racers : BeginRaceMessage(p)
  \/ \E p \in Procs : Step(p)

SpecRace == Init /\ [][NextRace]_vars

\* getMessengerProfile calls, which overlap at their await, as time passes.
NextProfileCache == LookUp \/ Respond \/ Tick

SpecProfileCache == Init /\ [][NextProfileCache]_vars

\* Operations on one InstagramProfileCache as time passes.
NextInstagramCache == IgGet \/ IgSet \/ IgClear \/ IgCleanup \/ Tick

SpecInstagramCache == Init /\ [][NextInstagramCache]_vars

\* Non-overlapping operations on threads: messages, replies, status changes,
\* assignments and read acknowledgments.
NextThread == ReceiveOnThread \/ ReplyOnThread \/ UpdateStatusOnThread \/ Assign \/ MarkAsRead

SpecThread == Init /\ [][NextThread]_vars

\* Webhook events, one after the other.
NextWebhook == Webhook

SpecWebhook == Init /\ [][NextWebhook]_vars

\* Non-overlapping inbound messages of one sender on one channel, and nothing else.
NextSame == ReceiveSame

SpecSame == Init /\ [][NextSame]_vars

\* Non-overlapping inbound messages and message status updates.
NextMessageStatus == ReceiveForStatus \/ UpdateMessageStatus

SpecMessageStatus == Init /\ [][NextMessageStatus]_vars

\* Concurrent calls, after at most MaxPrefix messages that arrived one by one.
Next ==
  \/ Arrive
  \/ \E p \in Procs : BeginProcessMessage(p)
  \/ \E p \in Procs : BeginUpdateStatus(p)
  \/ \E p \in Procs : Step(p)

Spec == Init /\ [][Next]_vars

-----------------------------------------------------------------------------
(* Vocabulary of the properties, read off the stored items directly *)

RawIdent(raw) == [type |-> raw.identifierType, value |-> raw.identifierValue]

IsCustomerRecord(table, k) == k \in DOMAIN table /\ "identifiers" \in DOMAIN table[k]

\* How many times a customer record lists the identifier.
Copies(item, id) ==
  Cardinality({ i \in 1..Len(item.identifiers) :
                  item.identifiers[i].type = id.type /\ item.identifiers[i].value = id.value })

\* The customer records that own the identifier.
OwningCustomers(table, id) ==
  { k \in DOMAIN table : IsCustomerRecord(table, k) /\ Copies(table[k], id) >= 1 }

\* The threads of a (customerId, channel) pair, and those of them not closed.
PairThreads(table, cid, ch) ==
  { t \in DOMAIN table : table[t].customer_id = cid /\ table[t].channel = ch }

ActiveThreads(table, cid, ch) ==
  { t \in PairThreads(table, cid, ch) : table[t].status # "closed" }

\* The step is a processMessage call that returned normally.
InboundReturned ==
  last' # last /\ last'.op = "processMessage" /\ last'.pc = "done" /\ last'.error = ""

\* The step is an addIdentifier call on a customer record.
AddIdentifierCalled ==
  last' # last /\ last'.op = "addIdentifier" /\ IsCustomerRecord(customers, last'.customerId)

-----------------------------------------------------------------------------
(* C1 *)

C1_Step ==
  \A id \in Identifiers :
    /\ Cardinality(OwningCustomers(customers', id)) <= 1
    /\ OwningCustomers(customers, id) \subseteq OwningCustomers(customers', id)
    /\ (InboundReturned /\ RawIdent(last'.raw) = id)
         => OwningCustomers(customers', id) = {The(last'.customer).customerId}

\* C1: over non-overlapping processMessage calls, an identifier has at most one
\* owning Customer record, the owner once created stays the owner, and every call
\* that carries the identifier resolves to that owner's customerId.
C1_IdentityUniqueness == [][C1_Step]_vars

\* A later message of a known sender, on another channel than the one the customer
\* was created from, resolved to the existing customer.
C1_Witness ==
  /\ last.op = "processMessage" /\ last.pc = "done" /\ last.error = ""
  /\ ~last.createdCustomer
  /\ The(last.customer).identifiers[1].channel # last.raw.channel
  /\ OwningCustomers(customers, RawIdent(last.raw)) = {The(last.customer).customerId}

-----------------------------------------------------------------------------
(* C2 *)

\* C2: once concurrent processMessage calls carrying one identifier have all
\* finished, at most one Customer owns the identifier and each call's message is
\* stored under that customer.
C2_OneCustomerAfterRace ==
  AllDone =>
    \A p \in Procs, q \in Procs :
      ( /\ proc[p].op = "processMessage" /\ proc[q].op = "processMessage"
        /\ RawIdent(proc[p].raw) = RawIdent(proc[q].raw) )
      => /\ Cardinality(OwningCustomers(customers, RawIdent(proc[p].raw))) <= 1
         /\ proc[p].error = ""
         /\ OwningCustomers(customers, RawIdent(proc[p].raw))
              = {messages[The(proc[p].message).messageId].customer_id}

-----------------------------------------------------------------------------
(* C3 *)

\* C3: in every reachable state each (customerId, channel) pair has at most one
\* thread whose status is not closed.
C3_SingleActiveThread ==
  \A t1 \in DOMAIN threads, t2 \in DOMAIN threads :
    ( /\ threads[t1].customer_id = threads[t2].customer_id
      /\ threads[t1].channel = threads[t2].channel
      /\ threads[t1].status # "closed"
      /\ threads[t2].status # "closed" )
    => t1 = t2

-----------------------------------------------------------------------------
(* C4 *)

\* C4: a thread whose stored status is closed stays closed, whatever status change
\* is requested on it.
C4_ClosedIsTerminal ==
  [][\A t \in DOMAIN threads : threads[t].status = "closed" => threads'[t].status = "closed"]_vars

-----------------------------------------------------------------------------
(* C5 *)

C5_Step ==
  InboundReturned =>
    LET cid == The(last'.customer).customerId
        ch  == last'.raw.channel
        tid == The(last'.thread).threadId
    IN  (PairThreads(threads, cid, ch) # {} /\ ActiveThreads(threads, cid, ch) = {})
        => /\ tid \notin DOMAIN threads
           /\ tid \in DOMAIN threads'
           /\ threads'[tid].status = "open"
           /\ threads'[tid].customer_id = cid
           /\ threads'[tid].channel = ch
           /\ \A m \in (DOMAIN messages') \ (DOMAIN messages) : messages'[m].thread_id = tid
           /\ (DOMAIN messages') \ (DOMAIN messages) # {}
           /\ \A t \in DOMAIN threads : threads'[t] = threads[t]

\* C5: when every thread of a (customerId, channel) pair is closed, the next
\* processMessage of the pair creates a thread with a new threadId and status
\* open, stores its message on it, and leaves the closed records as they were.
C5_NewThreadAfterClose == [][C5_Step]_vars

\* A message was stored on a thread created beside a closed thread of its pair.
C5_Witness ==
  /\ last.op = "processMessage" /\ last.pc = "done" /\ last.error = ""
  /\ last.createdThread
  /\ \E t \in PairThreads(threads, The(last.customer).customerId, last.raw.channel) :
       /\ t # The(last.thread).threadId
       /\ threads[t].status = "closed"
  /\ threads[The(last.thread).threadId].status = "open"
  /\ messages[The(last.message).messageId].thread_id = The(last.thread).threadId

-----------------------------------------------------------------------------
(* C6 *)

\* C6: a processMessage that created a thread did so only because the pair had no
\* non-closed thread: beside the thread it created, no thread of the same
\* (customerId, channel) is open or pending.
C6_RoutesToActiveThread ==
  (last.op = "processMessage" /\ last.pc = "done" /\ last.createdThread)
  => ActiveThreads(threads, The(last.customer).customerId, last.raw.channel)
       \subseteq {The(last.thread).threadId}

-----------------------------------------------------------------------------
(* C7 *)

\* The identifier was appended to the record by addIdentifier (it is not the
\* identifier the customer was created from).
Appended(item, id) ==
  \E i \in 2..Len(item.identifiers) :
    item.identifiers[i].type = id.type /\ item.identifiers[i].value = id.value

\* C7: a processMessage carrying an identifier that addIdentifier appended to
\* customer c (and that no other customer lists) resolves to c: no customer is
\* created and the thread and the message are stored under c.
C7_AppendedIdentifierResolves ==
  (last.op = "processMessage" /\ last.pc = "done")
  => \A c \in DOMAIN customers :
       ( /\ IsCustomerRecord(customers, c)
         /\ Appended(customers[c], RawIdent(last.raw))
         /\ OwningCustomers(customers, RawIdent(last.raw))
              \subseteq {c, The(last.customer).customerId} )
       => /\ The(last.customer).customerId = c
          /\ ~last.createdCustomer
          /\ threads[The(last.thread).threadId].customer_id = c
          /\ messages[The(last.message).messageId].customer_id = c

-----------------------------------------------------------------------------
(* C8 *)

C8_Step ==
  /\ \A id \in Identifiers : Cardinality(OwningCustomers(customers', id)) <= 1
  /\ (AddIdentifierCalled
        /\ OwningCustomers(customers, last'.identifier) \ {last'.customerId} # {})
     => (last'.error = "IdentifierConflict" /\ customers' = customers)

\* C8: addIdentifier with an identifier another customer owns fails with
\* IdentifierConflict and changes no record; no identifier is ever listed by two
\* customers.
C8_IdentifierConflict == [][C8_Step]_vars

-----------------------------------------------------------------------------
(* C9 *)

C9_Step ==
  AddIdentifierCalled =>
    /\ last'.error = ""
    /\ Copies(customers'[last'.customerId], last'.identifier) = 1
    /\ Copies(customers[last'.customerId], last'.identifier) >= 1
         => (customers' = customers /\ threads' = threads /\ messages' = messages)

\* C9: addIdentifier on a customer raises no error and leaves exactly one copy of
\* the identifier, and when the customer already lists it the call writes nothing.
C9_IdempotentAttach == [][C9_Step]_vars

\* addIdentifier returned without writing, for an identifier an earlier
\* addIdentifier had appended.
C9_Witness ==
  /\ last.op = "addIdentifier" /\ last.pc = "done" /\ last.error = ""
  /\ last.saving = {}
  /\ IsCustomerRecord(customers, last.customerId)
  /\ Appended(customers[last.customerId], last.identifier)
  /\ Copies(customers[last.customerId], last.identifier) = 1

-----------------------------------------------------------------------------
(* C10 *)

\* The stored messages that came with the same channel, sender and external id.
Deliveries(table, owners, raw) ==
  { m \in DOMAIN table :
      /\ table[m].direction = "inbound"
      /\ table[m].channel = raw.channel
      /\ table[m].external_message_id = raw.externalMessageId
      /\ table[m].customer_id \in owners }

C10_Step ==
  ( /\ last' # last /\ last'.op = "processMessage"
    /\ Deliveries(messages, OwningCustomers(customers, RawIdent(last'.raw)), last'.raw) # {} )
  => /\ messages' = messages
     /\ \A t \in DOMAIN threads : threads'[t].unread_count = threads[t].unread_count

\* C10: processing again an inbound message that is already stored (same channel,
\* identifier and externalMessageId) stores no second message and leaves every
\* unreadCount as it was.
C10_IdempotentStorage == [][C10_Step]_vars

-----------------------------------------------------------------------------
(* C11 *)

\* Position of a status in the delivery order; failed lies outside the order.
StatusRank(status) ==
  CASE status = "pending"   -> 0
    [] status = "sent"      -> 1
    [] status = "delivered" -> 2
    [] status = "read"      -> 3
    [] status = "failed"    -> 4

C11_Step ==
  \A m \in DOMAIN messages :
    /\ (messages[m].status # "failed" /\ messages'[m].status # "failed")
         => StatusRank(messages'[m].status) >= StatusRank(messages[m].status)
    /\ messages[m].status = "failed" => messages'[m].status = "failed"
    /\ messages[m].status = "read" => messages'[m].status \in {"read", "failed"}

\* C11: over any sequence of MessageService.updateStatus calls the status of a
\* stored message never moves backwards in the order pending, sent, delivered,
\* read, and a message that is failed or read never returns to an earlier status.
C11_StatusNeverRegresses == [][C11_Step]_vars

-----------------------------------------------------------------------------
(* C12 *)

CustomerRecords(table) == { k \in DOMAIN table : IsCustomerRecord(table, k) }

C12_Step ==
  /\ last'.op = "processMessage" /\ last'.pc = "done" /\ last'.error = ""
  /\ Cardinality(DOMAIN messages') = Cardinality(DOMAIN messages) + 1
  /\ Cardinality(CustomerRecords(customers')) = 1
  /\ Cardinality(DOMAIN threads') = 1
  /\ \A t \in DOMAIN threads' :
       /\ threads'[t].status = "open"
       /\ threads'[t].unread_count = Cardinality(DOMAIN messages')
       /\ threads'[t].customer_id \in CustomerRecords(customers')
       /\ \A m \in DOMAIN messages' :
            /\ messages'[m].direction = "inbound"
            /\ messages'[m].status = "delivered"
            /\ messages'[m].thread_id = t
            /\ messages'[m].customer_id = threads'[t].customer_id

\* C12: from empty stores, every processMessage of a run of non-overlapping calls
\* from one identifier on one channel returns normally and adds one message, so
\* that after n calls there are one Customer, one Thread (open, unreadCount = n)
\* and n Messages, all inbound, delivered and on that thread.
C12_SameSenderAccumulates == [][C12_Step]_vars

\* The third message of the sender was stored on the thread the first one created.
C12_Witness ==
  /\ last.op = "processMessage" /\ last.pc = "done" /\ ~last.createdThread /\ ~last.createdCustomer
  /\ Cardinality(DOMAIN messages) = 3
  /\ threads[The(last.thread).threadId].unread_count = 3

-----------------------------------------------------------------------------
(* C16 *)

\* C16: after a processMessage the actions of the rule engine for (message,
\* customer, thread) are applied: every tag action's tag is among the tags of
\* the stored customer.
C16_RuleActionsApplied ==
  (last.op = "processMessage" /\ last.pc = "done" /\ last.error = "")
  => LET message  == mapToMessage(The(last.message).messageId, messages[The(last.message).messageId])
         customer == mapToCustomer(message.customerId, customers[message.customerId])
         thread   == mapToThread(message.threadId, threads[message.threadId])
     IN  \A isBusinessHours \in BOOLEAN :
           LET actions == evaluate(message, customer, thread, isBusinessHours)
           IN  \A a \in 1..Len(actions) :
                 actions[a].type = "tag"
                   => \E i \in 1..Len(customer.tags) : customer.tags[i] = actions[a].tag

-----------------------------------------------------------------------------
(* C13 *)

Lacking(raw) == raw.identifierType = "" \/ raw.identifierValue = ""

C13_Step ==
  (last' # last /\ last'.op = "handler") =>
    /\ Cardinality((DOMAIN messages') \ (DOMAIN messages))
         = Cardinality({ k \in 1..Len(last'.batch) : ~Lacking(last'.batch[k]) })
    /\ \A k \in 1..Len(last'.batch) :
         Lacking(last'.batch[k]) =>
           /\ \A m \in DOMAIN messages' :
                messages'[m].external_message_id # last'.batch[k].externalMessageId
           /\ \A t \in DOMAIN threads' :
                threads'[t].external_conversation_id # last'.batch[k].externalMessageId
    /\ \A c \in CustomerRecords(customers') :
         \A i \in 1..Len(customers'[c].identifiers) :
           customers'[c].identifiers[i].type # "" /\ customers'[c].identifiers[i].value # ""
    /\ (\A k \in 1..Len(last'.batch) : Lacking(last'.batch[k]))
         => (customers' = customers /\ threads' = threads /\ messages' = messages)

\* C13: a normalized message that lacks its identifierType or its identifierValue
\* is not handed to processMessage: the webhook event writes one message per
\* entry that has both, and no Customer, Thread or Message for the others.
C13_NoWriteWithoutIdentifier == [][C13_Step]_vars

\* An event carried a message without identifier value followed by a complete
\* one, and only the complete one was stored.
C13_Witness ==
  /\ last.op = "handler" /\ last.pc = "done" /\ last.statusCode = 200
  /\ Len(last.batch) = 2
  /\ last.batch[1].identifierType # "" /\ last.batch[1].identifierValue = ""
  /\ ~Lacking(last.batch[2])
  /\ Cardinality(DOMAIN messages) = 1
  /\ \A m \in DOMAIN messages : messages[m].external_message_id = last.batch[2].externalMessageId

-----------------------------------------------------------------------------
(* Vocabulary of the sendReply properties *)

\* The step is a sendReply call.
ReplyCalled == last' # last /\ last'.op = "sendReply"

\* The provider was called and answered with success, or without.
ProviderSucceeded(l) == \E r \in l.sendResult : r.success
ProviderFailed(l) == \E r \in l.sendResult : ~r.success

Prefix(str, n) == IF Len(str) <= n THEN str ELSE SubSeq(str, 1, n)

-----------------------------------------------------------------------------
(* C17 *)

C17_Step ==
  (ReplyCalled /\ last'.request.threadId \notin DOMAIN threads) =>
    /\ last'.pc = "done" /\ last'.error = ""
    /\ Cardinality(last'.result) = 1
    /\ \A r \in last'.result : ~r.success /\ r.error = "Thread not found"
    /\ last'.sendResult = {}
    /\ last'.notified = ""
    /\ messages' = messages
    /\ threads' = threads

\* C17: sendReply with a threadId that is not in the Thread store returns
\* {success: false, error: 'Thread not found'} without throwing, calls no
\* provider, persists no Message and changes no Thread.
C17_ThreadNotFound == [][C17_Step]_vars

\* sendReply returned 'Thread not found' while other threads were stored.
C17_Witness ==
  /\ last.op = "sendReply" /\ last.pc = "done" /\ last.error = ""
  /\ last.request.threadId \notin DOMAIN threads
  /\ DOMAIN threads # {}
  /\ \E r \in last.result : r.error = "Thread not found"

-----------------------------------------------------------------------------
(* C18 *)

C18_Step ==
  (ReplyCalled /\ ProviderSucceeded(last')) =>
    LET tid == last'.request.threadId
        new == (DOMAIN messages') \ (DOMAIN messages)
    IN  /\ last'.pc = "done" /\ last'.error = ""
        /\ last'.result = last'.sendResult
        /\ Cardinality(new) = 1
        /\ \A m \in DOMAIN messages : messages'[m] = messages[m]
        /\ \A m \in new :
             /\ messages'[m].direction = "outbound"
             /\ messages'[m].status = "sent"
             /\ messages'[m].sender_id = last'.request.operatorId
             /\ messages'[m].content = last'.request.content
             /\ messages'[m].thread_id = tid
             /\ \A r \in last'.sendResult :
                  r.externalMessageId # "" /\ messages'[m].external_message_id = r.externalMessageId
             /\ threads'[tid].last_message_at = messages'[m].timestamp
             /\ threads'[tid].last_message_preview = Prefix(last'.request.content, 100)
        /\ threads'[tid].unread_count = threads[tid].unread_count

\* C18: when the provider call of sendReply succeeds with external id X, exactly
\* one Message is added (outbound, sent, senderId = operatorId,
\* externalMessageId = X), the thread's lastMessageAt and lastMessagePreview
\* are taken from it, and the provider's SendResult is returned as it is.
C18_ReplyStored == [][C18_Step]_vars

\* A reply longer than the preview was sent and stored, and the thread shows its
\* first 100 characters.
C18_Witness ==
  /\ last.op = "sendReply" /\ last.pc = "done" /\ ProviderSucceeded(last)
  /\ Len(last.request.content) > 100
  /\ messages[The(last.message).messageId].external_message_id = "X1"
  /\ Len(threads[last.request.threadId].last_message_preview) = 100

-----------------------------------------------------------------------------
(* C19 *)

C19_Step ==
  (ReplyCalled /\ ProviderFailed(last')) =>
    /\ last'.pc = "done" /\ last'.error = ""
    /\ last'.result = last'.sendResult
    /\ \A r \in last'.result : ~r.success /\ r.error # ""
    /\ messages' = messages
    /\ \A t \in DOMAIN threads :
         /\ threads'[t].last_message_at = threads[t].last_message_at
         /\ threads'[t].last_message_preview = threads[t].last_message_preview

\* C19: when the provider call of sendReply fails, sendReply does not throw: it
\* returns a SendResult with success = false and the error message, no Message
\* is persisted and no thread's lastMessageAt or lastMessagePreview changes.
C19_FailedSendNotStored == [][C19_Step]_vars

\* The provider rejected a reply on a thread that already had an earlier reply stored.
C19_Witness ==
  /\ last.op = "sendReply" /\ last.pc = "done" /\ last.error = ""
  /\ \E r \in last.result : ~r.success /\ r.error = "provider error"
  /\ \E m \in DOMAIN messages :
       messages[m].direction = "outbound" /\ messages[m].thread_id = last.request.threadId

-----------------------------------------------------------------------------
(* C20 *)

\* C20: every sendReply on an existing thread whose send failed has sent the
\* Notification Gateway a card update that carries the failure.
C20_FailureReported ==
  (last.op = "sendReply" /\ last.pc = "done" /\ ProviderFailed(last))
  => last.cardStatus = "failure"

-----------------------------------------------------------------------------
(* C15 *)

C15_Step ==
  /\ DOMAIN customers \subseteq DOMAIN customers'
  /\ DOMAIN threads \subseteq DOMAIN threads'
  /\ \A m \in DOMAIN messages : m \in DOMAIN messages' /\ messages'[m] = messages[m]
  /\ (last' # last /\ last'.notified = "failed") =>
       /\ last'.pc = "done" /\ last'.error = ""
       /\ last'.op = "processMessage" =>
            LET m == The(last'.message).messageId
            IN  /\ m \in (DOMAIN messages') \ (DOMAIN messages)
                /\ messages'[m].thread_id \in DOMAIN threads'
                /\ messages'[m].customer_id \in DOMAIN customers'
                /\ threads'[messages'[m].thread_id].last_message_preview
                     = Prefix(last'.raw.content, 100)
       /\ last'.op = "sendReply" =>
            /\ last'.result = last'.sendResult
            /\ ProviderSucceeded(last') =>
                 \E m \in (DOMAIN messages') \ (DOMAIN messages) :
                   /\ messages'[m].direction = "outbound"
                   /\ threads'[messages'[m].thread_id].last_message_at = messages'[m].timestamp

\* C15: when the Lark call that sends or updates a card fails, processMessage
\* and sendReply still return normally (sendReply with the provider's result),
\* and the records written before the notification step are in the stores.
C15_NotificationFailureContained == [][C15_Step]_vars

\* The card update of a successful reply failed; the reply is stored and returned.
C15_Witness ==
  /\ last.op = "sendReply" /\ last.pc = "done" /\ last.error = ""
  /\ last.notified = "failed"
  /\ ProviderSucceeded(last)
  /\ last.result = last.sendResult
  /\ The(last.message).messageId \in DOMAIN messages

-----------------------------------------------------------------------------
(* C14 *)

\* Every message of the table is stored under a Customer and a Thread that
\* exist, and the thread belongs to the message's customer and channel.
Anchored(cs, ts, ms) ==
  \A m \in DOMAIN ms :
    /\ IsCustomerRecord(cs, ms[m].customer_id)
    /\ ms[m].thread_id \in DOMAIN ts
    /\ ts[ms[m].thread_id].customer_id = ms[m].customer_id
    /\ ts[ms[m].thread_id].channel = ms[m].channel

C14_Step ==
  /\ Anchored(customers', threads', messages')
  /\ ( /\ last' # last /\ last'.op = "processMessage" /\ last'.error # ""
       /\ (last'.customer = {} \/ last'.thread = {}) )
     => messages' = messages

\* C14: every persisted message references a Customer and a Thread that exist in
\* their stores, the thread having the message's customerId and channel; and a
\* processMessage whose customer or thread resolution fails on a store error
\* aborts without persisting a message.
C14_NoPartialRecords == [][C14_Step]_vars

-----------------------------------------------------------------------------
(* C21 *)

Providers == {"twilio", "meta", "linkedin", "direct"}

\* C21: the channel of every thread maps to one provider of the table, and a
\* sendReply on an existing thread has called that provider's send operation:
\* it never answers 'Unsupported channel'.
C21_EveryChannelHasSender ==
  (last.op = "sendReply" /\ last.pc = "done" /\ last.thread # {})
  => /\ CHANNEL_PROVIDERS(The(last.thread).channel) \in Providers
     /\ \A r \in last.sendResult : r.error # "Unsupported channel"

-----------------------------------------------------------------------------
(* C22 *)

NotifyAll == [NoAction EXCEPT !.type = "notify", !.mention = "@all"]
PriorityHigh == [NoAction EXCEPT !.type = "priority", !.level = "high"]
TagUrgent == [NoAction EXCEPT !.type = "tag", !.tag = "urgent"]

\* The message contents of the inputs that contain a keyword of the
\* urgent-keyword rule.
KeywordContents == {Urgent, Asap}

\* What the two installed rules yield for a message and a customer as stored.
ExpectedActions(messageItem, customerItem) ==
  (IF customerItem.is_vip THEN <<NotifyAll, PriorityHigh>> ELSE <<>>)
    \o (IF messageItem.content \in KeywordContents THEN <<PriorityHigh, TagUrgent>> ELSE <<>>)

\* C22: evaluate returns the action lists of the rules whose conditions all
\* hold, concatenated in rule order: the vip-notification actions for a VIP
\* customer only, then the urgent-keyword actions for a message with a keyword
\* only, and both when both rules fire.
C22_ActionsAccumulate ==
  (last.op = "evaluate")
  => last.actions = ExpectedActions(messages[The(last.message).messageId],
                                    customers[The(last.customer).customerId])

\* Both rules fired in one call: a VIP customer wrote an urgent message.
C22_Witness ==
  /\ last.op = "evaluate"
  /\ customers[The(last.customer).customerId].is_vip
  /\ The(last.message).content = Urgent
  /\ last.actions = <<NotifyAll, PriorityHigh, PriorityHigh, TagUrgent>>

-----------------------------------------------------------------------------
(* C24 *)

C24_Step ==
  last'.op = "evaluate" =>
    /\ rules' = rules
    /\ customers' = customers /\ threads' = threads /\ messages' = messages /\ nextId' = nextId
    /\ messages[The(last'.message).messageId] = MessageItem(The(last'.message))
    /\ threads[The(last'.thread).threadId] = ThreadItem(The(last'.thread))
    /\ ( /\ last.op = "evaluate"
         /\ last'.message = last.message /\ last'.customer = last.customer
         /\ last'.thread = last.thread /\ last'.isBusinessHours = last.isBusinessHours )
       => last'.actions = last.actions

-----------------------------------------------------------------------------
(* C23 *)

C23_Step ==
  (InboundReturned /\ OwningCustomers(customers, RawIdent(last'.raw)) # {})
  => /\ DOMAIN customers' = DOMAIN customers
     /\ \A c \in DOMAIN customers : customers'[c] = customers[c]

\* C23: a processMessage whose identifier already belongs to a Customer writes
\* nothing to the customer store: displayName, avatarUrl, identifiers, tags and
\* isVip of the record keep their values whatever name and avatar the message
\* carries.
C23_HintsDoNotMutate == [][C23_Step]_vars

\* A message with another sender name and another avatar than the stored ones
\* was resolved to an existing VIP customer.
C23_Witness ==
  /\ last.op = "processMessage" /\ last.pc = "done" /\ last.error = ""
  /\ ~last.createdCustomer
  /\ LET item == customers[The(last.customer).customerId]
     IN  /\ item.is_vip
         /\ last.raw.senderName # "" /\ last.raw.senderName # item.display_name
         /\ last.raw.senderAvatar # "" /\ last.raw.senderAvatar # item.avatar_url

-----------------------------------------------------------------------------
(* C25 *)

\* The inbound messages stored on a thread.
InboundOn(t) ==
  { m \in DOMAIN messages : messages[m].thread_id = t /\ messages[m].direction = "inbound" }

RacersDone == \A p \in Racers : proc[p].pc = "done"

-----------------------------------------------------------------------------
(* C26 *)

\* unreadCount of a thread before a step; a thread that is not stored yet counts 0.
UnreadBefore(t) == IF t \in DOMAIN threads THEN threads[t].unread_count ELSE 0

\* The thread a step touches through the call that just finished, and by how
\* much: the thread of the stored inbound message, or the thread read.
C26_Step ==
  /\ \A t \in DOMAIN threads' : threads'[t].unread_count >= 0
  /\ last' # last =>
       \A t \in DOMAIN threads' :
         threads'[t].unread_count =
           IF /\ last'.op = "processMessage" /\ last'.error = ""
              /\ messages'[The(last'.message).messageId].thread_id = t
           THEN UnreadBefore(t) + 1
           ELSE IF last'.op = "markAsRead" /\ last'.threadId = t
           THEN 0
           ELSE UnreadBefore(t)

\* C26: over non-overlapping operations a thread's unreadCount starts at 0,
\* grows by exactly 1 with each inbound message stored on the thread, is reset
\* to 0 by markAsRead, is left alone by sendReply, assign, updateStatus and
\* setLarkInfo, and is never negative.
C26_UnreadCount == [][C26_Step]_vars

\* A counter that markAsRead had reset grew again with the next inbound message.
C26_Witness ==
  /\ last.op = "processMessage" /\ last.error = ""
  /\ \E t \in DOMAIN threads :
       /\ messages[The(last.message).messageId].thread_id = t
       /\ threads[t].unread_count = 1
       /\ Cardinality({ m \in DOMAIN messages : messages[m].thread_id = t }) = 2

-----------------------------------------------------------------------------
(* C27 *)

C27_Step ==
  (last' # last /\ last'.op = "assign") =>
    /\ customers' = customers /\ messages' = messages
    /\ IF last'.threadId \in DOMAIN threads
       THEN /\ last'.error = ""
            /\ DOMAIN threads' = DOMAIN threads
            /\ \A t \in DOMAIN threads :
                 threads'[t] =
                   IF t = last'.threadId
                   THEN [threads[t] EXCEPT !.assigned_to = last'.assigneeId,
                                           !.assigned_to_name = last'.assigneeName,
                                           !.updated_at = threads'[t].updated_at]
                   ELSE threads[t]
       ELSE /\ last'.error = "Thread not found"
            /\ threads' = threads

\* C27: assign on a stored thread writes the given assignee id and name over
\* whatever was there, in any status, and changes nothing else but updatedAt;
\* on an unknown threadId it fails with 'Thread not found' and writes nothing.
C27_AssignOverwrites == [][C27_Step]_vars

\* A closed thread that had an assignee was given to someone else.
C27_Witness ==
  /\ last.op = "assign" /\ last.error = ""
  /\ The(last.fetched).assignedTo \notin {"", last.assigneeId}
  /\ threads[last.threadId].status = "closed"
  /\ threads[last.threadId].assigned_to = last.assigneeId

-----------------------------------------------------------------------------
(* C28 *)

\* C28: when a call updateStatus(threadId, closed) and a concurrent call that
\* is no status change have both finished, the thread's stored status is
\* closed.
C28_CloseIsFinal ==
  AllDone =>
    \A p \in Procs :
      ( /\ proc[p].op = "updateStatus" /\ proc[p].status = "closed" /\ proc[p].error = ""
        /\ \A q \in Procs \ {p} : proc[q].op = "processMessage" )
        => threads[proc[p].threadId].status = "closed"

-----------------------------------------------------------------------------
(* C29 *)

\* The cached psid whose last set or cache hit lies furthest back.
LeastRecentlyUsed == Head(SelectSeq(used, LAMBDA k : k \in CacheKeys(profileCache)))

C29_Step ==
  /\ Len(profileCache') <= maxSize
     \* a set that made room
  /\ (SumPending(ProfileCalls)' < SumPending(ProfileCalls) /\ Len(profileCache) >= maxSize) =>
       \A k \in CacheKeys(profileCache) \ CacheKeys(profileCache') : k = LeastRecentlyUsed
     \* a profile served from the cache
  /\ (served' # served /\ served'.profile # {} /\ ~served'.api) =>
       \E i \in 1..Len(profileCache) :
         /\ profileCache[i].psid = served'.key
         /\ served'.profile = {profileCache[i].profile}
         /\ clock - profileCache[i].timestamp <= ttlMs

\* C29: over any getMessengerProfile calls the profile cache holds at most
\* maxSize entries, the entry a set evicts from a full cache is the least
\* recently used one (by set or by cache hit), and a profile is served
\* without a Graph API call only while its age is within the TTL.
C29_BoundedLru == [][C29_Step]_vars

-----------------------------------------------------------------------------
(* C30 *)

\* The TTL of an entry as the call of set gave it.
GivenTtl(set) == IF set.ttl = {} THEN defaultTtl ELSE The(set.ttl)

Fresh(userId) ==
  userId \in DOMAIN igSets /\ clock - igSets[userId].at <= GivenTtl(igSets[userId])

C30_Step ==
  /\ (served' # served /\ served'.op = "get") =>
       LET userId == served'.key
       IN  /\ served'.profile = IF Fresh(userId) THEN {igSets[userId].profile} ELSE {}
           /\ ~Fresh(userId) => userId \notin DOMAIN igCache'
  /\ (served' # served /\ served'.op = "cleanup") =>
       /\ DOMAIN igCache' = { u \in DOMAIN igCache : Fresh(u) }
       /\ served'.removed = Cardinality(DOMAIN igCache \ DOMAIN igCache')
       /\ \A u \in DOMAIN igCache' : igCache'[u] = igCache[u]

\* C30: get(userId) returns the profile last set for userId exactly when the
\* time since that set is within the entry's TTL (the ttl argument of set,
\* else the cache default) and the entry was not cleared; get removes an
\* expired entry; cleanup removes exactly the expired entries, returns their
\* number and keeps the others.
C30_GetWithinTtl == [][C30_Step]_vars

====
